---------------------------- MODULE Spec2Model ----------------------------
(***************************************************************************)
(* A model of msggen.go (src/ubx/msggen.go): the schema graph and its      *)
(* linking pass, the class/id literal parser, the scalar type resolver,    *)
(* the bit-mask resolver and the pipeline of main.                         *)
(*                                                                         *)
(* Go strings are modelled as sequences of one-character strings, so that  *)
(* splitting, matching, parsing and formatting are computed character by   *)
(* character as the code and the library functions it calls compute them.  *)
(***************************************************************************)
EXTENDS Integers, Sequences, FiniteSets, TLC

VARIABLES
    pc,         \* position of main / of the function under study
    env,        \* command line and template file: [nargs, tmplOK]
    stdin,      \* the XML document on standard input
    next,       \* number of <Message> elements decoded so far
    messages,   \* definitions.Message: sequence of Message records
    blocks,     \* heap of Block objects, by identity
    bits,       \* heap of BitDef objects, by identity
    stdout,     \* what has been written to os.Stdout
    stderr,     \* what has been written to os.Stderr (the log package)
    exit,       \* <<>> while running, <<status>> once the process has exited
    rpos,       \* number of blocks the template has rendered
    linkCount,  \* number of completed calls of Definitions.Link
    arg,        \* argument of the function under study
    target,     \* the Hex value *v that UnmarshalXML writes to
    ret         \* result of the function under study

vars == <<pc, env, stdin, next, messages, blocks, bits, stdout, stderr, exit,
          rpos, linkCount, arg, target, ret>>

NIL == "nil"

\* the nil *Message / *Block: objects are numbered from 1
nilptr == 0

\* ------------------------------------------------------------------------
\* Bounds of the model
\* ------------------------------------------------------------------------
MaxMsgs == 2        \* <Message> elements in a document
MaxBlocks == 3      \* <Block> elements in a document (all levels)
MaxBits == 2        \* <Bitfield><Type> elements in a document
MaxLinks == 2       \* calls of Definitions.Link in the linker study
MaxArrDigits == 2   \* digits of the array length in a ctype input
MaxTextLen == 4     \* characters of a class/id text

\* ------------------------------------------------------------------------
\* Characters and strings
\* ------------------------------------------------------------------------
Digits == {"0", "1", "2", "3", "4", "5", "6", "7", "8", "9"}

DigitSeq == <<"0", "1", "2", "3", "4", "5", "6", "7", "8", "9">>

LowerSeq == <<"a", "b", "c", "d", "e", "f", "g", "h", "i", "j", "k", "l", "m",
              "n", "o", "p", "q", "r", "s", "t", "u", "v", "w", "x", "y", "z">>

UpperSeq == <<"A", "B", "C", "D", "E", "F", "G", "H", "I", "J", "K", "L", "M",
              "N", "O", "P", "Q", "R", "S", "T", "U", "V", "W", "X", "Y", "Z">>

IndexOf(seq, c) == CHOOSE i \in 1..Len(seq) : seq[i] = c

InSeq(seq, c) == \E i \in 1..Len(seq) : seq[i] = c

\* strconv's lower(c): c | ('x' - 'X'), applied to letters
lower(c) == IF InSeq(UpperSeq, c) THEN LowerSeq[IndexOf(UpperSeq, c)] ELSE c

RECURSIVE Concat(_)
Concat(ss) == IF ss = <<>> THEN <<>> ELSE Head(ss) \o Concat(Tail(ss))

\* all strings over alphabet A of length at most n
RECURSIVE StringsUpTo(_, _)
StringsUpTo(A, n) ==
    IF n = 0 THEN {<<>>}
    ELSE LET shorter == StringsUpTo(A, n - 1)
         IN  shorter \cup {Append(s, c) : s \in shorter, c \in A}

\* the decimal text of a natural number, as strconv/fmt print it
RECURSIVE Itoa(_)
Itoa(n) == IF n < 10 THEN <<DigitSeq[n + 1]>>
           ELSE Append(Itoa(n \div 10), DigitSeq[(n % 10) + 1])


\* ------------------------------------------------------------------------
\* goType (msggen.go:152-190)
\* ------------------------------------------------------------------------

\* the character class [CHIRUX0-9_] of reCType
CTypeClass == {"C", "H", "I", "R", "U", "X", "_"} \cup Digits

\* end of the longest run of characters of S in s that starts at i
\* (i - 1 when s[i] is not in S): a greedy x+ / x*
RECURSIVE RunEnd(_, _, _)
RunEnd(s, i, S) ==
    IF i <= Len(s) /\ s[i] \in S THEN RunEnd(s, i + 1, S) ELSE i - 1

\* reCType.FindStringSubmatch(s): the leftmost match of
\*   ([CHIRUX0-9_]+)(\[[0-9]+\])?
\* anywhere in s, as <<whole, group 1, group 2>>, or <<>> (nil) for no match.
\* The pattern is not anchored.  Group 1 is greedy and cannot give characters
\* back to group 2, which starts with "[", a character outside the class.
FindStringSubmatch(s) ==
    LET starts == {i \in 1..Len(s) : s[i] \in CTypeClass}
    IN  IF starts = {} THEN <<>>
        ELSE LET i  == CHOOSE x \in starts : \A y \in starts : x <= y
                 j  == RunEnd(s, i, CTypeClass)
                 k  == RunEnd(s, j + 2, Digits)
                 g2 == j + 1 <= Len(s) /\ s[j + 1] = "["
                       /\ k >= j + 2
                       /\ k + 1 <= Len(s) /\ s[k + 1] = "]"
                 e  == IF g2 THEN k + 1 ELSE j
             IN  << SubSeq(s, i, e),
                    SubSeq(s, i, j),
                    IF g2 THEN SubSeq(s, j + 1, k + 1) ELSE <<>> >>

\* the scalar codes, as strings
cRU1_3 == <<"R", "U", "1", "_", "3">>
cR4 == <<"R", "4">>
cR8 == <<"R", "8">>
cI1 == <<"I", "1">>
cU1 == <<"U", "1">>
cCH == <<"C", "H">>
cX1 == <<"X", "1">>
cI2 == <<"I", "2">>
cU2 == <<"U", "2">>
cX2 == <<"X", "2">>
cI4 == <<"I", "4">>
cU4 == <<"U", "4">>
cX4 == <<"X", "4">>
cI8 == <<"I", "8">>
cU8 == <<"U", "8">>

\* the Go type names, as strings
tFloat8 == <<"F", "l", "o", "a", "t", "8">>
tfloat32 == <<"f", "l", "o", "a", "t", "3", "2">>
tfloat64 == <<"f", "l", "o", "a", "t", "6", "4">>
tint8 == <<"i", "n", "t", "8">>
tbyte == <<"b", "y", "t", "e">>
tint16 == <<"i", "n", "t", "1", "6">>
tuint16 == <<"u", "i", "n", "t", "1", "6">>
tint32 == <<"i", "n", "t", "3", "2">>
tuint32 == <<"u", "i", "n", "t", "3", "2">>
tint64 == <<"i", "n", "t", "6", "4">>
tuint64 == <<"u", "i", "n", "t", "6", "4">>

\* the switch with the X4 case merged into the wrong 16-bit branch
ScalarSwitchX4Short(p) ==
    CASE p = cRU1_3 -> tFloat8
      [] p = cR4 -> tfloat32
      [] p = cR8 -> tfloat64
      [] p = cI1 -> tint8
      [] p \in {cU1, cCH, cX1} -> tbyte
      [] p = cI2 -> tint16
      [] p \in {cU2, cX2, cX4} -> tuint16
      [] p = cI4 -> tint32
      [] p \in {cU4} -> tuint32
      [] p = cI8 -> tint64
      [] p = cU8 -> tuint64
      [] OTHER -> <<>>

\* the switch on parts[1]; <<>> stands for the default branch
ScalarSwitch(p) ==
    CASE p = cRU1_3 -> tFloat8
      [] p = cR4 -> tfloat32
      [] p = cR8 -> tfloat64
      [] p = cI1 -> tint8
      [] p \in {cU1, cCH, cX1} -> tbyte
      [] p = cI2 -> tint16
      [] p \in {cU2, cX2} -> tuint16
      [] p = cI4 -> tint32
      [] p \in {cU4, cX4} -> tuint32
      [] p = cI8 -> tint64
      [] p = cU8 -> tuint64
      [] OTHER -> <<>>

\* goType(ctype): [ok, val, err]; err names which of the two errors it is
goType(ctype) ==
    LET parts == FindStringSubmatch(ctype)
    IN  IF Len(parts) # 3
        THEN [ok |-> FALSE, val |-> <<>>, err |-> "Cannot parse as ctype([arraylen])"]
        ELSE LET t == ScalarSwitch(parts[2])
             IN  IF t = <<>>
                 THEN [ok |-> FALSE, val |-> <<>>, err |-> "invalid scalar part"]
                 ELSE IF parts[3] = <<>>
                      THEN [ok |-> TRUE, val |-> t, err |-> NIL]
                      ELSE [ok |-> TRUE, val |-> parts[3] \o t, err |-> NIL]

\* ------------------------------------------------------------------------
\* strconv.ParseUint(s, 0, bitSize), as called at msggen.go:91, 195, 196, 199
\* ------------------------------------------------------------------------

\* the value of c as a digit, or 36 when c is neither a digit nor a letter
DigitVal(c) ==
    IF c \in Digits THEN IndexOf(DigitSeq, c) - 1
    ELSE IF InSeq(LowerSeq, lower(c)) THEN IndexOf(LowerSeq, lower(c)) + 9
    ELSE 36

\* base 0: the base is taken from the prefix ("0b", "0o", "0x" before at
\* least one more character; any other leading "0" means octal)
BaseOf(s) ==
    IF s[1] # "0" THEN 10
    ELSE IF Len(s) >= 3 /\ lower(s[2]) = "b" THEN 2
    ELSE IF Len(s) >= 3 /\ lower(s[2]) = "o" THEN 8
    ELSE IF Len(s) >= 3 /\ lower(s[2]) = "x" THEN 16
    ELSE 8

DigitsOf(s) ==
    IF s[1] # "0" THEN s
    ELSE IF Len(s) >= 3 /\ lower(s[2]) \in {"b", "o", "x"} THEN SubSeq(s, 3, Len(s))
    ELSE Tail(s)

\* whether v exceeds 1<<bitSize - 1.  The texts of the model are short (at
\* most MaxTextLen characters, or three digits), so their values stay far
\* below 1<<64 and the 64-bit limit is never exceeded by them.
Exceeds(v, bitSize) == bitSize < 31 /\ v > 2^bitSize - 1

\* underscoreOK(s): underscores only as separators between digits or
\* between the base prefix and a digit
RECURSIVE UnderscoreScan(_, _, _, _)
UnderscoreScan(s, idx, prev, hex) ==
    IF idx > Len(s) THEN prev # "_"
    ELSE LET c == s[idx]
         IN  IF c \in Digits \/ (hex /\ DigitVal(c) \in 10..15)
             THEN UnderscoreScan(s, idx + 1, "0", hex)
             ELSE IF c = "_"
                  THEN prev = "0" /\ UnderscoreScan(s, idx + 1, "_", hex)
                  ELSE prev # "_" /\ UnderscoreScan(s, idx + 1, "!", hex)

underscoreOK(s) ==
    LET t == IF Len(s) >= 1 /\ s[1] \in {"-", "+"} THEN Tail(s) ELSE s
        pre == Len(t) >= 2 /\ t[1] = "0" /\ lower(t[2]) \in {"b", "o", "x"}
    IN  IF pre THEN UnderscoreScan(SubSeq(t, 3, Len(t)), 1, "0", lower(t[2]) = "x")
        ELSE UnderscoreScan(t, 1, "^", FALSE)

\* a digit loop that returns what it has read so far on a bad character
RECURSIVE ParseLoopPartial(_, _, _, _, _)
ParseLoopPartial(s, i, base, n, bitSize) ==
    IF i > Len(s) THEN [val |-> n, err |-> NIL]
    ELSE IF s[i] = "_" THEN ParseLoopPartial(s, i + 1, base, n, bitSize)
    ELSE IF DigitVal(s[i]) >= base THEN [val |-> n, err |-> "syntax"]
    ELSE IF Exceeds(n * base + DigitVal(s[i]), bitSize)
         THEN [val |-> 2^bitSize - 1, err |-> "range"]
    ELSE ParseLoopPartial(s, i + 1, base, n * base + DigitVal(s[i]), bitSize)

\* the digit loop: stops at the first bad character (syntax error, 0) or the
\* first overflow of the bit size (range error, the maximum value)
RECURSIVE ParseLoop(_, _, _, _, _)
ParseLoop(s, i, base, n, bitSize) ==
    IF i > Len(s) THEN [val |-> n, err |-> NIL]
    ELSE IF s[i] = "_" THEN ParseLoop(s, i + 1, base, n, bitSize)
    ELSE IF DigitVal(s[i]) >= base THEN [val |-> 0, err |-> "syntax"]
    ELSE IF Exceeds(n * base + DigitVal(s[i]), bitSize)
         THEN [val |-> 2^bitSize - 1, err |-> "range"]
    ELSE ParseLoop(s, i + 1, base, n * base + DigitVal(s[i]), bitSize)

ParseUint(s, bitSize) ==
    IF s = <<>> THEN [val |-> 0, err |-> "syntax"]
    ELSE LET r == ParseLoop(DigitsOf(s), 1, BaseOf(s), 0, bitSize)
         IN  IF r.err # NIL THEN r
             ELSE IF InSeq(DigitsOf(s), "_") /\ ~underscoreOK(s)
                  THEN [val |-> 0, err |-> "syntax"]
                  ELSE r

\* ------------------------------------------------------------------------
\* mask (msggen.go:192-201)
\* ------------------------------------------------------------------------

\* width of Go's int, the type of the untyped constant 1 in 1<<i when the
\* shift is an argument of Sprintf (64-bit platforms)
IntBits == 64

BitIdx == 0..(IntBits - 1)

\* An int is modelled as its two's complement bits, a function on BitIdx,
\* bit 0 the least significant.

\* 1 << n for an unsigned shift count n: zero once n reaches the width
Shl1(n) == [k \in BitIdx |-> IF k = n THEN 1 ELSE 0]

\* v - 1, wrapping
Minus1(v) ==
    LET ones == {k \in BitIdx : v[k] = 1}
    IN  IF ones = {} THEN [k \in BitIdx |-> 1]
        ELSE LET p == CHOOSE x \in ones : \A y \in ones : x <= y
             IN  [k \in BitIdx |-> IF k < p THEN 1 ELSE IF k = p THEN 0 ELSE v[k]]

Xor(a, b) == [k \in BitIdx |-> (a[k] + b[k]) % 2]

Not(v) == [k \in BitIdx |-> 1 - v[k]]

\* -v, wrapping
Neg(v) == Not(Minus1(v))

HexSeq == DigitSeq \o <<"a", "b", "c", "d", "e", "f">>

Nibble(v, q) == v[4 * q] + 2 * v[4 * q + 1] + 4 * v[4 * q + 2] + 8 * v[4 * q + 3]

\* the hexadecimal digits of the bits read as an unsigned number
\* from nibble q down to nibble 0
RECURSIVE HexFrom(_, _)
HexFrom(v, q) ==
    <<HexSeq[Nibble(v, q) + 1]>> \o (IF q = 0 THEN <<>> ELSE HexFrom(v, q - 1))

UHex(v) ==
    LET nz == {q \in 0..(IntBits \div 4 - 1) : Nibble(v, q) # 0}
        top == IF nz = {} THEN 0 ELSE CHOOSE x \in nz : \A y \in nz : x >= y
    IN  HexFrom(v, top)

\* fmt's %x of an int: a minus sign and the magnitude when negative
FormatX(v) ==
    IF v[IntBits - 1] = 1 THEN <<"-">> \o UHex(Neg(v)) ELSE UHex(v)

\* strings.Split(s, sep) for a one-character separator
RECURSIVE Split(_, _)
Split(s, sep) ==
    LET at == {i \in 1..Len(s) : s[i] = sep}
    IN  IF at = {} THEN <<s>>
        ELSE LET i == CHOOSE x \in at : \A y \in at : x <= y
             IN  <<SubSeq(s, 1, i - 1)>> \o Split(SubSeq(s, i + 1, Len(s)), sep)

mask(s) ==
    LET parts == Split(s, ":")
    IN  IF Len(parts) = 2
        THEN LET hi == ParseUint(parts[1], 8).val
                 lo == ParseUint(parts[2], 8).val
             IN  <<"0", "x">> \o FormatX(Xor(Minus1(Shl1(hi + 1)), Minus1(Shl1(lo))))
        ELSE <<"0", "x">> \o FormatX(Shl1(ParseUint(s, 8).val))

\* ------------------------------------------------------------------------
\* Hex.UnmarshalXML (msggen.go:84-97)
\* ------------------------------------------------------------------------

\* v is the value *v on entry, f the element's character data; decodeOK says
\* whether d.DecodeElement(&f, &start) returned no error
HexUnmarshalXML(v, f, decodeOK) ==
    IF ~decodeOK THEN [v |-> v, err |-> "xml"]
    ELSE LET r == ParseUint(f, 64)
         IN  IF r.err # NIL THEN [v |-> v, err |-> r.err]
             ELSE [v |-> r.val, err |-> NIL]

\* ------------------------------------------------------------------------
\* The functions studied on their own: one call on an input drawn from a
\* bounded set
\* ------------------------------------------------------------------------
progVars == <<env, stdin, next, messages, blocks, bits, stdout, stderr, exit,
              rpos, linkCount>>

NoProgram ==
    /\ env = NIL /\ stdin = NIL /\ next = 0
    /\ messages = <<>> /\ blocks = <<>> /\ bits = <<>>
    /\ stdout = <<>> /\ stderr = <<>> /\ exit = <<>>
    /\ rpos = 0 /\ linkCount = 0

ScalarCodes == {cRU1_3, cR4, cR8, cI1, cU1, cCH, cX1, cI2, cU2, cX2, cI4, cU4,
                cX4, cI8, cU8}

ArrDigitChars == {"0", "1", "2", "9"}

ArrLens == StringsUpTo(ArrDigitChars, MaxArrDigits) \ {<<>>}

\* ctype inputs: junk or nothing, a scalar code or a near miss, an array
\* suffix or a malformed one, junk or nothing
GoTypeInputs ==
    LET pre  == {<<>>, <<"x">>, <<"9">>}
        sc   == ScalarCodes \cup {<<>>, <<"Q", "9">>, <<"U", "3">>, <<"u", "4">>}
        arr  == {<<>>, <<"[", "]">>, <<"[", "a", "b", "c", "]">>, <<"[", "1">>,
                 <<"[", "-", "1", "]">>}
                \cup {<<"[">> \o n \o <<"]">> : n \in ArrLens}
        post == {<<>>, <<"x">>, <<"]">>}
    IN  {Concat(<<a, b, c, d>>) : a \in pre, b \in sc, c \in arr, d \in post}

InitGoType ==
    /\ pc = "goType" /\ arg \in GoTypeInputs
    /\ target = 0 /\ ret = NIL /\ NoProgram

CallGoType ==
    /\ pc = "goType"
    /\ ret' = goType(arg)
    /\ pc' = "returned"
    /\ UNCHANGED <<arg, target, progVars>>

SpecGoType == InitGoType /\ [][CallGoType]_vars

\* bit indices: every position of the word, the first one past it, and the
\* ends of the 8-bit range ParseUint is asked for
MaskNumbers == (0..IntBits) \cup {255, 256, 300}

MaskJunk == {<<>>, <<"a">>, <<"0", "9">>, <<"1", "x">>, <<"-", "1">>, <<"0", "x">>,
             <<"_", "1">>, <<" ", "3">>}

MaskParts == {Itoa(n) : n \in MaskNumbers} \cup MaskJunk
             \cup {<<"0", "1", "0">>, <<"0", "x", "1", "F">>, <<"0", "b", "1", "1">>,
                   <<"1", "_", "0">>}

MaskInputs ==
    MaskParts
    \cup {a \o <<":">> \o b : a \in MaskParts, b \in MaskParts}
    \cup {<<"1", ":", "2", ":", "3">>, <<"7", ":", "4", ":">>}

InitMask ==
    /\ pc = "mask" /\ arg \in MaskInputs
    /\ target = 0 /\ ret = NIL /\ NoProgram

CallMask ==
    /\ pc = "mask"
    /\ ret' = mask(arg)
    /\ pc' = "returned"
    /\ UNCHANGED <<arg, target, progVars>>

SpecMask == InitMask /\ [][CallMask]_vars

HexChars == {"0", "1", "8", "x", "b", "o", "_", "z"}

HexTexts == StringsUpTo(HexChars, MaxTextLen) \cup {<<"x", "y", "z">>, <<"0", "X", "1">>}

InitHex ==
    /\ pc = "UnmarshalXML" /\ arg \in HexTexts
    /\ target \in {0, 5} /\ ret = NIL /\ NoProgram

CallUnmarshalXML ==
    /\ pc = "UnmarshalXML"
    /\ \E decodeOK \in BOOLEAN :
          LET r == HexUnmarshalXML(target, arg, decodeOK)
          IN  /\ target' = r.v
              /\ ret' = [err |-> r.err, before |-> target, decoded |-> decodeOK]
    /\ pc' = "returned"
    /\ UNCHANGED <<arg, progVars>>

SpecHex == InitHex /\ [][CallUnmarshalXML]_vars

\* ------------------------------------------------------------------------
\* The XML document and the graph xml.Decode builds from it
\* (msggen.go:20-22, 30-40, 48-63, 75-82)
\* ------------------------------------------------------------------------

\* A document lists its <Block> elements in document order, 1..nb: msgOf[b]
\* is the <Message> that contains block b and depth[b] its nesting depth (1
\* for a block directly in the payload).  bitOwner[k] is the block whose
\* <Bitfield> holds the k-th <Type> element.  A block or bit definition is
\* identified by its position in the document; the decoder allocates one
\* object for each.
ShapeOK(nm, nb, msgOf, depth) ==
    \A b \in 1..nb :
        IF b = 1 THEN depth[b] = 1
        ELSE /\ msgOf[b - 1] <= msgOf[b]
             /\ msgOf[b - 1] < msgOf[b] => depth[b] = 1
             /\ depth[b] <= depth[b - 1] + 1

Monotone(f, n) == \A k \in 2..n : f[k - 1] <= f[k]

MsgOfs(nm, nb) == {f \in [1..nb -> 1..nm] : Monotone(f, nb)}

Depths(nb) ==
    {d \in [1..nb -> 1..nb] :
        \A b \in 1..nb : IF b = 1 THEN d[b] = 1 ELSE d[b] <= d[b - 1] + 1}

BitOwners(nbit, nb) == {o \in [1..nbit -> 1..nb] : Monotone(o, nbit)}

Shapes ==
    UNION { UNION { UNION {
        { [nm |-> nm, nb |-> nb, nbit |-> nbit, msgOf |-> f, depth |-> d, bitOwner |-> o] :
            f \in MsgOfs(nm, nb), d \in Depths(nb), o \in BitOwners(nbit, nb) }
        : nbit \in 0..MaxBits } : nb \in 0..MaxBlocks } : nm \in 0..MaxMsgs }

WellShaped == {sh \in Shapes : ShapeOK(sh.nm, sh.nb, sh.msgOf, sh.depth)}

\* the texts of the documents of the model
tClass01 == <<"0", "x", "0", "1">>
tId1 == <<"1">>
tXyz == <<"x", "y", "z">>
tQ9 == <<"Q", "9">>
tIndex74 == <<"7", ":", "4">>
tIndex3 == <<"3">>

\* the enclosing block of b, 0 for a block directly in the payload
ParentOf(doc, b) ==
    IF doc.depth[b] = 1 THEN 0
    ELSE CHOOSE c \in 1..(b - 1) :
            /\ doc.depth[c] = doc.depth[b] - 1
            /\ \A e \in (c + 1)..(b - 1) : doc.depth[e] >= doc.depth[b]

\* the members of a set of positions, in document order
RECURSIVE InOrder(_)
InOrder(S) ==
    IF S = {} THEN <<>>
    ELSE LET x == CHOOSE a \in S : \A y \in S : a <= y
         IN  <<x>> \o InOrder(S \ {x})

\* number of blocks / bit definitions inside the first n messages
BlocksUpTo(doc, n) == Cardinality({b \in 1..doc.nb : doc.msgOf[b] <= n})

BitsUpTo(doc, n) ==
    Cardinality({k \in 1..doc.nbit : doc.msgOf[doc.bitOwner[k]] <= n})

\* the Message, Block and BitDef values the decoder builds for the first n
\* <Message> elements; back-references (xml:"-") are left nil
DecodedMessages(doc, n) ==
    [i \in 1..n |->
        [Name   |-> i,
         Class  |-> HexUnmarshalXML(0, doc.class[i], TRUE).v,
         Id     |-> HexUnmarshalXML(0, tId1, TRUE).v,
         Blocks |-> InOrder({b \in 1..doc.nb : doc.msgOf[b] = i /\ doc.depth[b] = 1})]]

DecodedBlocks(doc, n) ==
    [b \in 1..BlocksUpTo(doc, n) |->
        [Name     |-> b,
         Type     |-> doc.type[b],
         Bitfield |-> InOrder({k \in 1..doc.nbit : doc.bitOwner[k] = b}),
         Nested   |-> InOrder({c \in 1..doc.nb : ParentOf(doc, c) = b}),
         Message  |-> nilptr]]

DecodedBits(doc, n) ==
    [k \in 1..BitsUpTo(doc, n) |->
        [Name  |-> k,
         Index |-> IF k % 2 = 1 THEN tIndex74 ELSE tIndex3,
         Field |-> nilptr]]

\* ------------------------------------------------------------------------
\* Linking (msggen.go:24-28, 42-46, 65-73)
\* ------------------------------------------------------------------------
\* h is the heap: [blocks, bits].  A *Message is the message's position in
\* definitions.Message, a *Block the block's identity.
RECURSIVE BlockLink(_, _, _), LinkEach(_, _, _)

\* Block.Link without its loop over b.Nested
BlockLinkNoNested(h, b, m) ==
    [blocks |-> [h.blocks EXCEPT ![b].Message = m],
     bits   |-> [k \in DOMAIN h.bits |->
                   IF InSeq(h.blocks[b].Bitfield, k)
                   THEN [h.bits[k] EXCEPT !.Field = b]
                   ELSE h.bits[k]]]

\* Block.Link that hands b.Message, read before it is assigned, to the
\* nested blocks instead of m
BlockLinkStale(h, b, m) ==
    LET h1 == BlockLinkNoNested(h, b, m)
    IN  LinkEach(h1, h1.blocks[b].Nested, h.blocks[b].Message)

\* Block.Link that empties b.Nested as it walks it
BlockLinkConsumes(h, b, m) ==
    LET h1 == BlockLinkNoNested(h, b, m)
        h2 == LinkEach(h1, h1.blocks[b].Nested, m)
    IN  [h2 EXCEPT !.blocks[b].Nested = <<>>]

\* func (b *Block) Link(m *Message)
BlockLink(h, b, m) ==
    LET h1 == [blocks |-> [h.blocks EXCEPT ![b].Message = m],
               bits   |-> [k \in DOMAIN h.bits |->
                             IF InSeq(h.blocks[b].Bitfield, k)
                             THEN [h.bits[k] EXCEPT !.Field = b]
                             ELSE h.bits[k]]]
    IN  LinkEach(h1, h1.blocks[b].Nested, m)

\* for _, v := range bs { v.Link(m) }
LinkEach(h, bs, m) ==
    IF bs = <<>> THEN h ELSE LinkEach(BlockLink(h, Head(bs), m), Tail(bs), m)

\* func (d *Message) Link(), for the message at position i
MessageLink(h, msgs, i) == LinkEach(h, msgs[i].Blocks, i)

\* func (d *Definitions) Link(): messages i..Len(msgs), in order
RECURSIVE DefinitionsLinkFrom(_, _, _)
DefinitionsLinkFrom(h, msgs, i) ==
    IF i > Len(msgs) THEN h
    ELSE DefinitionsLinkFrom(MessageLink(h, msgs, i), msgs, i + 1)

DefinitionsLink(h, msgs) == DefinitionsLinkFrom(h, msgs, 1)

\* the document of shape sh in which the <Class> of message badClass is
\* not a number and the type of block badType is not a ctype (0: none), as
\* well-formed XML or as XML that breaks off after its last <Message>
MakeDoc(sh, badClass, badType, xmlOK) ==
    [nm |-> sh.nm, nb |-> sh.nb, nbit |-> sh.nbit, msgOf |-> sh.msgOf,
     depth |-> sh.depth, bitOwner |-> sh.bitOwner,
     class |-> [i \in 1..sh.nm |-> IF i = badClass THEN tXyz ELSE tClass01],
     type |-> [b \in 1..sh.nb |-> IF b = badType THEN tQ9 ELSE cU4],
     xmlOK |-> xmlOK]

\* the linker on its own: a decoded graph, linked up to MaxLinks times
InitLink ==
    /\ pc = "link"
    /\ \E sh \in WellShaped : stdin = MakeDoc(sh, 0, 0, TRUE)
    /\ next = stdin.nm
    /\ messages = DecodedMessages(stdin, stdin.nm)
    /\ blocks = DecodedBlocks(stdin, stdin.nm)
    /\ bits = DecodedBits(stdin, stdin.nm)
    /\ linkCount = 0
    /\ env = NIL /\ stdout = <<>> /\ stderr = <<>> /\ exit = <<>> /\ rpos = 0
    /\ arg = NIL /\ target = 0 /\ ret = NIL

Link ==
    /\ pc = "link"
    /\ linkCount < MaxLinks
    /\ LET h == DefinitionsLink([blocks |-> blocks, bits |-> bits], messages)
       IN  blocks' = h.blocks /\ bits' = h.bits
    /\ linkCount' = linkCount + 1
    /\ UNCHANGED <<pc, env, stdin, next, messages, stdout, stderr, exit, rpos,
                   arg, target, ret>>

SpecLink == InitLink /\ [][Link]_vars

\* ------------------------------------------------------------------------
\* main (msggen.go:99-128)
\* ------------------------------------------------------------------------

Init ==
    /\ pc = "start"
    /\ env \in [nargs : 0..2, tmplOK : BOOLEAN]
    /\ stdin = NIL
    /\ next = 0
    /\ messages = <<>> /\ blocks = <<>> /\ bits = <<>>
    /\ stdout = <<>> /\ stderr = <<>> /\ exit = <<>>
    /\ rpos = 0 /\ linkCount = 0
    /\ arg = NIL /\ target = 0 /\ ret = NIL

\* log.Fatal / log.Fatalf: one line on the error stream, then os.Exit(1)
Fatal(msg) ==
    /\ stderr' = Append(stderr, msg)
    /\ exit' = <<1>>
    /\ pc' = "exited"

\* lines 104-106
CheckArgs ==
    /\ pc = "start"
    /\ IF env.nargs # 1
       THEN Fatal("Usage")
       ELSE pc' = "parse" /\ UNCHANGED <<stderr, exit>>
    /\ UNCHANGED <<env, stdin, next, messages, blocks, bits, stdout, rpos,
                   linkCount, arg, target, ret>>

\* lines 108-112: parse the template file, then log its name
ParseTemplate ==
    /\ pc = "parse"
    /\ IF ~env.tmplOK
       THEN Fatal("template")
       ELSE /\ stderr' = Append(stderr, "template file:")
            /\ pc' = "read"
            /\ UNCHANGED exit
    /\ UNCHANGED <<env, stdin, next, messages, blocks, bits, stdout, rpos,
                   linkCount, arg, target, ret>>

\* line 116: the decoder takes the document that is on standard input: any
\* shape, at most one <Class> that is not a number, at most one block whose
\* type is not a ctype
ReadStdin ==
    /\ pc = "read"
    /\ \E sh \in WellShaped : \E badClass \in 0..sh.nm : \E badType \in 0..sh.nb :
       \E xmlOK \in BOOLEAN :
          stdin' = MakeDoc(sh, badClass, badType, xmlOK)
    /\ pc' = "decode"
    /\ UNCHANGED <<env, next, messages, blocks, bits, stdout, stderr, exit,
                   rpos, linkCount, arg, target, ret>>

\* lines 114-118, one <Message> element of the Decode call: its Class and
\* Id go through Hex.UnmarshalXML; an error ends Decode and main
DecodeMessage ==
    /\ pc = "decode"
    /\ next < stdin.nm
    /\ LET class == HexUnmarshalXML(0, stdin.class[next + 1], TRUE)
           id    == HexUnmarshalXML(0, tId1, TRUE)
       IN  IF class.err # NIL \/ id.err # NIL
           THEN /\ Fatal(IF class.err # NIL THEN class.err ELSE id.err)
                /\ UNCHANGED <<next, messages, blocks, bits>>
           ELSE /\ next' = next + 1
                /\ messages' = DecodedMessages(stdin, next + 1)
                /\ blocks' = DecodedBlocks(stdin, next + 1)
                /\ bits' = DecodedBits(stdin, next + 1)
                /\ UNCHANGED <<pc, stderr, exit>>
    /\ UNCHANGED <<env, stdin, stdout, rpos, linkCount, arg, target, ret>>

\* lines 116-118, the end of the Decode call: the document's end, or a
\* syntax error of the XML itself
DecodeEnd ==
    /\ pc = "decode"
    /\ next = stdin.nm
    /\ IF ~stdin.xmlOK
       THEN Fatal("XML syntax error")
       ELSE pc' = "link" /\ UNCHANGED <<stderr, exit>>
    /\ UNCHANGED <<env, stdin, next, messages, blocks, bits, stdout, rpos,
                   linkCount, arg, target, ret>>

\* line 120
MainLink ==
    /\ pc = "link"
    /\ LET h == DefinitionsLink([blocks |-> blocks, bits |-> bits], messages)
       IN  blocks' = h.blocks /\ bits' = h.bits
    /\ linkCount' = linkCount + 1
    /\ pc' = "marker"
    /\ UNCHANGED <<env, stdin, next, messages, stdout, stderr, exit, rpos,
                   arg, target, ret>>

\* main without the Printf of line 122 before Execute
PrintMarkerMissing ==
    /\ pc = "marker"
    /\ pc' = "render"
    /\ UNCHANGED <<env, stdin, next, messages, blocks, bits, stdout, stderr,
                   exit, rpos, linkCount, arg, target, ret>>

\* line 122: the "Code generated by go run msggen.go <template>; DO NOT
\* EDIT." line
PrintMarker ==
    /\ pc = "marker"
    /\ stdout' = Append(stdout, [kind |-> "marker", tool |-> "go run msggen.go",
                                 tmpl |-> "flag.Arg(0)"])
    /\ pc' = "render"
    /\ UNCHANGED <<env, stdin, next, messages, blocks, bits, stderr, exit,
                   rpos, linkCount, arg, target, ret>>

\* lines 124-126, one step of tmpl.Execute(os.Stdout, definitions): the
\* template renders the next block, calling gotype on its Type and mask on
\* its bit definitions, and writes the text to os.Stdout as it goes; a
\* function's error ends Execute and main
RenderBlock ==
    /\ pc = "render"
    /\ rpos < Len(blocks)
    /\ LET b == rpos + 1
           t == goType(blocks[b].Type)
       IN  IF ~t.ok
           THEN Fatal(t.err) /\ UNCHANGED <<stdout, rpos>>
           ELSE /\ stdout' = Append(stdout,
                      [kind  |-> "text",
                       block |-> b,
                       msg   |-> blocks[b].Message,
                       type  |-> t.val,
                       masks |-> [j \in 1..Len(blocks[b].Bitfield) |->
                                    mask(bits[blocks[b].Bitfield[j]].Index)]])
                /\ rpos' = b
                /\ UNCHANGED <<pc, stderr, exit>>
    /\ UNCHANGED <<env, stdin, next, messages, blocks, bits, linkCount, arg,
                   target, ret>>

\* the end of Execute and of main
RenderEnd ==
    /\ pc = "render"
    /\ rpos = Len(blocks)
    /\ exit' = <<0>>
    /\ pc' = "exited"
    /\ UNCHANGED <<env, stdin, next, messages, blocks, bits, stdout, stderr,
                   rpos, linkCount, arg, target, ret>>

Next ==
    \/ CheckArgs
    \/ ParseTemplate
    \/ ReadStdin
    \/ DecodeMessage
    \/ DecodeEnd
    \/ MainLink
    \/ PrintMarker
    \/ RenderBlock
    \/ RenderEnd

Spec == Init /\ [][Next]_vars

\* ========================================================================
\* Properties
\* ========================================================================

\* the blocks reachable from a list of blocks through Nested, at any depth
RECURSIVE Reach(_)
Reach(bs) ==
    IF bs = <<>> THEN {}
    ELSE {Head(bs)} \cup Reach(blocks[Head(bs)].Nested) \cup Reach(Tail(bs))

BackRefsSet ==
    /\ \A i \in 1..Len(messages) : \A b \in Reach(messages[i].Blocks) :
          /\ blocks[b].Message = i
          /\ \A j \in 1..Len(blocks[b].Bitfield) :
                bits[blocks[b].Bitfield[j]].Field = b
    /\ \A b \in DOMAIN blocks : blocks[b].Message # nilptr
    /\ \A k \in DOMAIN bits : bits[k].Field # nilptr

\* C1: once Definitions.Link has run, every Block reachable from message m
\* (top-level or nested at any depth) has Message = m, every BitDef of a
\* Block b has Field = b, and no back-reference is left nil.
C1_BackRefsAfterLink == linkCount >= 1 => BackRefsSet

\* a linked graph with two messages, a block nested two levels deep that
\* carries a bit definition, all pointing back where they belong
C1_Witness ==
    /\ linkCount = 1
    /\ Len(messages) = 2
    /\ \E b \in DOMAIN blocks : \E c \in DOMAIN blocks : \E d \in DOMAIN blocks :
          /\ InSeq(messages[2].Blocks, b)
          /\ InSeq(blocks[b].Nested, c)
          /\ InSeq(blocks[c].Nested, d)
          /\ blocks[d].Message = 2
          /\ blocks[d].Bitfield # <<>>
          /\ bits[blocks[d].Bitfield[1]].Field = d

\* C7: linking is idempotent: a run of Definitions.Link on a graph that has
\* been linked before changes no back-reference (and nothing else).
C7_LinkIdempotent ==
    [][linkCount >= 1 => (blocks' = blocks /\ bits' = bits /\ messages' = messages)]_vars

\* the linker has run twice on a graph with nested blocks and bit definitions
C7_Witness ==
    /\ linkCount = 2
    /\ \E b \in DOMAIN blocks : \E c \in DOMAIN blocks :
          /\ InSeq(blocks[b].Nested, c)
          /\ blocks[c].Nested # <<>>
          /\ blocks[c].Message # nilptr
    /\ \E k \in DOMAIN bits : bits[k].Field # nilptr

\* everything of the graph but the back-references
Unlinked(bl, bi) ==
    [blocks |-> [b \in DOMAIN bl |-> [bl[b] EXCEPT !.Message = nilptr]],
     bits   |-> [k \in DOMAIN bi |-> [bi[k] EXCEPT !.Field = nilptr]]]

\* C8: a run of Definitions.Link changes nothing but Block.Message and
\* BitDef.Field: the Message sequence and each Message, each Block's
\* attributes, Nested and Bitfield sequences, each BitDef's attributes.
C8_LinkFrame ==
    [][linkCount' > linkCount =>
          /\ messages' = messages
          /\ Unlinked(blocks', bits') = Unlinked(blocks, bits)]_vars

\* a linked graph in which the order of nested blocks and of bit definitions
\* matters: a block with two nested blocks and a block with two bit definitions
C8_Witness ==
    /\ linkCount >= 1
    /\ \E b \in DOMAIN blocks : Len(blocks[b].Nested) >= 2
    /\ \E b \in DOMAIN blocks :
          /\ Len(blocks[b].Bitfield) >= 2
          /\ bits[blocks[b].Bitfield[2]].Field = b

\* ---- goType ----

AllDigits(s) == s # <<>> /\ \A i \in 1..Len(s) : s[i] \in Digits

\* the grammar <SCALAR> or <SCALAR>[<N>], matched against the whole string
Grammar(s) ==
    \E c \in ScalarCodes :
        \/ s = c
        \/ /\ Len(s) >= Len(c) + 3
           /\ SubSeq(s, 1, Len(c)) = c
           /\ s[Len(c) + 1] = "[" /\ s[Len(s)] = "]"
           /\ AllDigits(SubSeq(s, Len(c) + 2, Len(s) - 1))

\* C2: goType returns an error for every string that does not match the
\* grammar as a whole, "Q9" and "U4[abc]" and strings with extra characters
\* around a valid code included.
C2_RejectsNonGrammar == (pc = "returned" /\ ~Grammar(arg)) => ~ret.ok

\* the documented element type of each scalar code
DocumentedType(c) ==
    CASE c = cRU1_3 -> tFloat8
      [] c = cR4 -> tfloat32
      [] c = cR8 -> tfloat64
      [] c = cI1 -> tint8
      [] c = cU1 -> tbyte
      [] c = cCH -> tbyte
      [] c = cX1 -> tbyte
      [] c = cI2 -> tint16
      [] c = cU2 -> tuint16
      [] c = cX2 -> tuint16
      [] c = cI4 -> tint32
      [] c = cU4 -> tuint32
      [] c = cX4 -> tuint32
      [] c = cI8 -> tint64
      [] c = cU8 -> tuint64

\* C3: for every scalar code of the table goType succeeds with the
\* documented element type and no array part, and for the code followed by
\* [N], N a digit string, it succeeds with [N] followed by that type.
C3_ResolvesTable ==
    pc = "returned" =>
        \A c \in ScalarCodes :
            /\ arg = c =>
                  ret = [ok |-> TRUE, val |-> DocumentedType(c), err |-> NIL]
            /\ \A n \in ArrLens :
                  arg = c \o <<"[">> \o n \o <<"]">> =>
                      /\ ret.ok
                      /\ ret.val = <<"[">> \o n \o <<"]">> \o DocumentedType(c)

\* goType("U4[12]") has returned "[12]uint32"
C3_Witness ==
    /\ pc = "returned"
    /\ arg = <<"U", "4", "[", "1", "2", "]">>
    /\ ret.ok
    /\ ret.val = <<"[", "1", "2", "]", "u", "i", "n", "t", "3", "2">>

\* ---- mask ----

\* the unsigned word with exactly the bits lo..hi set
BitsSet(hi, lo) == [k \in BitIdx |-> IF lo <= k /\ k <= hi THEN 1 ELSE 0]

\* C4: for every bit index 0 <= i <= 63, mask("i") is the hexadecimal
\* literal of the unsigned value with bit i set, and for every range
\* 0 <= lo <= hi <= 63, mask("hi:lo") is the hexadecimal literal of the
\* unsigned value with exactly the bits lo..hi set, the top bit included.
C4_MaskExact ==
    pc = "returned" =>
        LET parts == Split(arg, ":")
        IN  /\ Len(parts) = 1 =>
                  \A i \in BitIdx :
                      arg = Itoa(i) => ret = <<"0", "x">> \o UHex(BitsSet(i, i))
            /\ Len(parts) = 2 =>
                  \A hi \in BitIdx : \A lo \in 0..hi :
                      (parts[1] = Itoa(hi) /\ parts[2] = Itoa(lo)) =>
                          ret = <<"0", "x">> \o UHex(BitsSet(hi, lo))

\* a component that ParseUint rejects as not being a number
NonNumeric(c) == ParseUint(c, 8).err = "syntax"

ValueOrZero(c) == IF NonNumeric(c) THEN 0 ELSE ParseUint(c, 8).val

SingleFormula(i) == <<"0", "x">> \o FormatX(Shl1(i))

RangeFormula(hi, lo) ==
    <<"0", "x">> \o FormatX(Xor(Minus1(Shl1(hi + 1)), Minus1(Shl1(lo))))

AllHexDigits(s) == s # <<>> /\ \A i \in 1..Len(s) : DigitVal(s[i]) < 16

IsDecimalLiteral(s) == AllDigits(s)

IsHexLiteral(s) ==
    /\ Len(s) >= 3 /\ s[1] = "0" /\ s[2] \in {"x", "X"}
    /\ AllHexDigits(SubSeq(s, 3, Len(s)))

\* the value of a digit string in a base
RECURSIVE ValueIn(_, _)
ValueIn(s, base) ==
    IF s = <<>> THEN 0
    ELSE ValueIn(SubSeq(s, 1, Len(s) - 1), base) * base + DigitVal(s[Len(s)])

LiteralValue(s) ==
    IF IsHexLiteral(s) THEN ValueIn(SubSeq(s, 3, Len(s)), 16) ELSE ValueIn(s, 10)

\* C6: parsing a class or id text succeeds exactly when the text is an
\* unsigned integer literal in decimal or in 0x-prefixed hexadecimal, and
\* then stores the literal's value in that base (a decimal digit string is
\* read in base 10); for any other text it returns an error and leaves the
\* target unchanged.
C6_DecimalOrHexOnly ==
    (pc = "returned" /\ ret.decoded) =>
        LET valid == IsDecimalLiteral(arg) \/ IsHexLiteral(arg)
        IN  /\ (ret.err = NIL) <=> valid
            /\ valid => target = LiteralValue(arg)
            /\ ~valid => target = ret.before

\* ---- main ----

\* the lines on the error stream other than the "template file:" log line
Diagnostics == SelectSeq(stderr, LAMBDA m : m # "template file:")

\* C5: when a run ends in an error, nothing has been written to the output
\* (neither the marker line nor rendered text), exactly one diagnostic has
\* been written to the error stream, and the exit status is non-zero.
C5_NoPartialOutput ==
    (pc = "exited" /\ Len(Diagnostics) > 0) =>
        /\ stdout = <<>>
        /\ Len(Diagnostics) = 1
        /\ exit # <<0>>

WholeDocumentDecoded ==
    /\ pc \notin {"start", "parse", "read", "decode"}
    /\ stdin.xmlOK
    /\ next = stdin.nm
    /\ Len(messages) = stdin.nm
    /\ Len(blocks) = stdin.nb
    /\ Len(bits) = stdin.nbit

MarkerFirst ==
    /\ stdout # <<>>
    /\ stdout[1] = [kind |-> "marker", tool |-> "go run msggen.go",
                    tmpl |-> "flag.Arg(0)"]
    /\ \A i \in 2..Len(stdout) : stdout[i].kind = "text"

\* C10: the stages of main come in a fixed order: the whole document is
\* decoded, then Definitions.Link completes, then the marker line is
\* written, and only then rendering starts; rendering never sees an unlinked
\* or partly built graph and nothing is written before the marker line.
C10_StageOrder ==
    /\ ((\E k \in DOMAIN bits : bits[k].Field # nilptr)
          \/ (\E b \in DOMAIN blocks : blocks[b].Message # nilptr)
          \/ linkCount > 0 \/ pc = "marker")
       => (WholeDocumentDecoded /\ linkCount = 1 /\ BackRefsSet)
    /\ stdout # <<>>
       => (WholeDocumentDecoded /\ linkCount = 1 /\ BackRefsSet /\ MarkerFirst)
    /\ (pc = "render" \/ rpos > 0)
       => (WholeDocumentDecoded /\ linkCount = 1 /\ BackRefsSet /\ MarkerFirst)
    /\ (pc = "exited" /\ exit = <<0>>)
       => (MarkerFirst /\ Len(stdout) = 1 + Len(blocks))

\* a run that has gone through all four stages: a graph with a nested block
\* and a bit definition, linked, the marker and then every block rendered
C10_Witness ==
    /\ pc = "exited" /\ exit = <<0>>
    /\ Len(stdout) >= 3
    /\ stdout[1].kind = "marker"
    /\ stdout[3].kind = "text" /\ stdout[3].msg = 1
    /\ \E b \in DOMAIN blocks : blocks[b].Nested # <<>>
    /\ \E k \in DOMAIN bits : bits[k].Field # nilptr

=============================================================================
